---- MODULE Spec2Model ----
(***************************************************************************)
(* Model of TodaySocialSnack.py: load_sheet (CSV load, column and date     *)
(* normalisation), filter_data (topic/date filter and sort),               *)
(* _format_when_display and the control flow of main.                      *)
(*                                                                         *)
(* Column names are written in English: date = "날짜", title = "제목",     *)
(* body = "본문", topic = "토픽 분류", summary = "요약",                   *)
(* newsletter = "뉴스레터".                                                *)
(*                                                                         *)
(* Timestamps are whole seconds since 1970-01-01 00:00:00.  A tz-aware     *)
(* value holds the UTC instant, a tz-naive value holds the wall clock.     *)
(***************************************************************************)
EXTENDS Integers, Sequences, FiniteSets, TLC

\* ------------------------------------------------------------------ bounds
\* rows of a sheet given to load_sheet
MaxRows == 3
\* rows of a frame given to filter_data
MaxFilterRows == 2
\* load_sheet calls in one run of the app
MaxLoads == 2

\* ---------------------------------------------------------------- calendar
SecondsPerDay == 24 * 60 * 60

\* days since 1970-01-01 of the proleptic Gregorian date y-m-d
DaysFromCivil(y, m, d) ==
    LET yy  == IF m <= 2 THEN y - 1 ELSE y
        era == yy \div 400
        yoe == yy - era * 400
        mp  == IF m > 2 THEN m - 3 ELSE m + 9
        doy == (153 * mp + 2) \div 5 + d - 1
        doe == yoe * 365 + yoe \div 4 - yoe \div 100 + doy
    IN  era * 146097 + doe - 719468

\* the date y-m-d of a day number
CivilFromDays(z) ==
    LET zz  == z + 719468
        era == zz \div 146097
        doe == zz - era * 146097
        yoe == (doe - doe \div 1460 + doe \div 36524 - doe \div 146096) \div 365
        doy == doe - (365 * yoe + yoe \div 4 - yoe \div 100)
        mp  == (5 * doy + 2) \div 153
        d   == doy - (153 * mp + 2) \div 5 + 1
        m   == IF mp < 10 THEN mp + 3 ELSE mp - 9
        y   == yoe + era * 400 + (IF m <= 2 THEN 1 ELSE 0)
    IN  [year |-> y, month |-> m, day |-> d]

\* wall-clock seconds of y-m-d hh:mi:ss
At(y, m, d, hh, mi, ss) ==
    DaysFromCivil(y, m, d) * SecondsPerDay + hh * 3600 + mi * 60 + ss

\* ------------------------------------------------------------- time zones
NoTz == "naive"

\* utcoffset of the zones used (none of them changes offset in the modelled dates)
UtcOffset(tz) ==
    CASE tz = "UTC"        -> 0
      [] tz = "Asia/Seoul" -> 9 * 3600
      [] tz = "UTC-05:00"  -> 0 - 5 * 3600
      [] tz = "UTC+05:30"  -> 5 * 3600 + 30 * 60
      [] OTHER             -> 0

\* -------------------------------------------------------------- timestamps
NaT == [nat |-> TRUE, value |-> 0]

Timestamp(v) == [nat |-> FALSE, value |-> v]

NA == "<NA>"

\* pd.Timestamp(date): midnight of a calendar date (a day number)
TimestampOfDate(day) == day * SecondsPerDay

\* Timestamp.date(): the calendar day of a wall-clock value
DateOf(v) == v \div SecondsPerDay

\* ---------------------------------------------------------------- strftime
DigitChar == <<"0", "1", "2", "3", "4", "5", "6", "7", "8", "9">>

Digit(n) == DigitChar[(n % 10) + 1]

Pad2(n) == <<Digit(n \div 10), Digit(n)>>

Pad4(n) == <<Digit(n \div 1000), Digit(n \div 100), Digit(n \div 10), Digit(n)>>

\* strftime("%Y-%m-%d %H:%M") of a wall-clock value, as a sequence of characters
Strftime(wall) ==
    LET c   == CivilFromDays(wall \div SecondsPerDay)
        sod == wall % SecondsPerDay
    IN  Pad4(c.year) \o <<"-">> \o Pad2(c.month) \o <<"-">> \o Pad2(c.day)
        \o <<" ">> \o Pad2(sod \div 3600) \o <<":">> \o Pad2((sod % 3600) \div 60)

\* ------------------------------------------------------------- data frames
REQUIRED_COLS == <<"date", "title", "body", "topic", "summary", "newsletter">>

Range(q) == {q[i] : i \in 1..Len(q)}

\* a DataFrame: its column names, its rows (each with its index label and its
\* cells by column name) and the dtype of the date column
DataFrame(cols, rows, dtype) == [columns |-> cols, rows |-> rows, dtype |-> dtype]

NoFrame == DataFrame(<<>>, <<>>, "none")

\* pd.DataFrame(columns=REQUIRED_COLS)
EmptyFrame == DataFrame(REQUIRED_COLS, <<>>, "object")

\* df.empty
IsEmpty(df) == Len(df.rows) = 0 \/ Len(df.columns) = 0

\* a Series: the dtype and the values of one column
Series(dtype, values) == [dtype |-> dtype, values |-> values]

\* df[col]
Column(df, col) ==
    Series(IF col = "date" THEN df.dtype ELSE "object",
           [i \in 1..Len(df.rows) |-> df.rows[i].cells[col]])

\* df[col] = series
SetColumn(df, col, s) ==
    [df EXCEPT !.rows = [i \in 1..Len(df.rows) |->
                            [df.rows[i] EXCEPT !.cells[col] = s.values[i]]],
               !.dtype = IF col = "date" THEN s.dtype ELSE @]

\* str.strip of the header names the sheets use
Strip(name) ==
    CASE name = " date " -> "date"
      [] name = "topic " -> "topic"
      [] OTHER           -> name

\* df.columns = df.columns.astype(str).str.strip()
StripColumns(df) ==
    LET ReKey(cells) ==
            [c \in {Strip(x) : x \in DOMAIN cells} |->
                cells[CHOOSE x \in DOMAIN cells : Strip(x) = c]]
    IN  [df EXCEPT !.columns = [i \in 1..Len(df.columns) |-> Strip(df.columns[i])],
                   !.rows = [i \in 1..Len(df.rows) |->
                                [df.rows[i] EXCEPT !.cells = ReKey(@)]]]

\* df[c] = pd.NA for a column the frame lacks
AddColumn(df, c, v) ==
    [df EXCEPT !.columns = Append(@, c),
               !.rows = [i \in 1..Len(df.rows) |->
                            [df.rows[i] EXCEPT !.cells = @ @@ (c :> v)]]]

\* ----------------------------------------------------- raw timestamp cells
\* A raw cell is described by what the parser reads in it: a wall clock with a
\* UTC offset (zone-qualified), a wall clock alone (zone-naive), text that is
\* no timestamp, or an empty cell.
RawAware(wall, off) == [kind |-> "aware", wall |-> wall, off |-> off]
RawNaive(wall)      == [kind |-> "naive", wall |-> wall, off |-> 0]
RawGarbage          == [kind |-> "garbage", wall |-> 0, off |-> 0]
RawNA               == [kind |-> "na", wall |-> 0, off |-> 0]

Parses(cell) == cell.kind \in {"aware", "naive"}

\* pd.to_datetime(series, errors="coerce", utc=True): a zone-qualified value
\* becomes its UTC instant, a zone-naive value is read as UTC, anything else
\* becomes NaT; the result is datetime64[ns, UTC]
to_datetime_cell(cell) ==
    CASE cell.kind = "aware" -> Timestamp(cell.wall - cell.off)
      [] cell.kind = "naive" -> Timestamp(cell.wall)
      [] OTHER               -> NaT

\* to_datetime without utc=True: zone-naive values stay as they are beside the
\* zone-qualified ones, and the series of mixed values is of dtype object
to_datetime_without_utc(s) ==
    Series("object", [i \in 1..Len(s.values) |-> to_datetime_cell(s.values[i])])

to_datetime(s) ==
    Series("UTC", [i \in 1..Len(s.values) |-> to_datetime_cell(s.values[i])])

\* whether series.dt.tz exists and is set
IsTzAware(s) == s.dtype \notin {"object", NoTz, "none"}

\* s.dt.tz_convert(tz): the same instants, shown in tz
tz_convert(s, tz) == [s EXCEPT !.dtype = tz]

\* s.dt.tz_localize(None): the wall clock of each instant in the series' zone
tz_localize_none(s) ==
    Series(NoTz, [i \in 1..Len(s.values) |->
                     IF s.values[i].nat THEN NaT
                     ELSE Timestamp(s.values[i].value + UtcOffset(s.dtype))])

\* the try block of load_sheet: tz_convert("Asia/Seoul") then tz_localize(None);
\* both raise on a series without a zone, and the except clause keeps s
ConvertToSeoulNaive(s) ==
    IF IsTzAware(s) THEN tz_localize_none(tz_convert(s, "Asia/Seoul")) ELSE s

\* the required columns a frame lacks, in REQUIRED_COLS order
RECURSIVE FillRequired(_, _)
FillRequired(df, k) ==
    IF k > Len(REQUIRED_COLS) THEN df
    ELSE FillRequired(IF REQUIRED_COLS[k] \in Range(df.columns) THEN df
                      ELSE AddColumn(df, REQUIRED_COLS[k],
                                     IF REQUIRED_COLS[k] = "date" THEN RawNA ELSE NA),
                      k + 1)

\* load_sheet after a successful read_csv, start to end
NormalizeSheet(raw) ==
    LET df == FillRequired(StripColumns(raw), 1)
        s  == ConvertToSeoulNaive(to_datetime(Column(df, "date")))
    IN  SetColumn(df, "date", s)

\* ------------------------------------------------------------- filter_data
\* Python's None and a present value
None == [some |-> FALSE, v |-> <<>>]
Some(x) == [some |-> TRUE, v |-> x]

\* truth value of an optional list or tuple
Truthy(o) == o.some /\ Len(o.v) > 0

\* series.isin(topics): a missing topic equals no selected topic
IsIn(v, topics) == v # NA /\ v \in Range(topics)

\* the range with end_ts left at midnight of the end date
CoerceRangeEndAtMidnight(start, end, series) ==
    <<TimestampOfDate(start), TimestampOfDate(end)>>

\* _coerce_range_like_series_tz: the instants of start 00:00:00 and of
\* end 23:59:59, in the zone of the series when it has one
CoerceRangeLikeSeriesTz(start, end, series) ==
    LET start_ts == TimestampOfDate(start)
        end_ts   == TimestampOfDate(end) + SecondsPerDay - 1
    IN  IF IsTzAware(series)
        THEN <<start_ts - UtcOffset(series.dtype), end_ts - UtcOffset(series.dtype)>>
        ELSE <<start_ts, end_ts>>

\* mask & (date >= start_dt) & (date <= end_dt): a comparison with NaT is False
InRange(ts, start_dt, end_dt) ==
    ~ts.nat /\ ts.value >= start_dt /\ ts.value <= end_dt

Perms(n) == {f \in [1..n -> 1..n] : \A i, j \in 1..n : f[i] = f[j] => i = j}

\* sort_values with na_position="first"
SortValuesNaFirst(rows) ==
    LET dated   == SelectSeq(rows, LAMBDA r : ~r.cells["date"].nat)
        undated == SelectSeq(rows, LAMBDA r : r.cells["date"].nat)
        n       == Len(dated)
    IN  {undated \o [i \in 1..n |-> dated[f[i]]] : f \in
            {g \in Perms(n) : \A i \in 1..(n - 1) :
                dated[g[i]].cells["date"].value >= dated[g[i + 1]].cells["date"].value}}

\* sort_values("date", ascending=False, na_position="last"): the rows with a
\* date come first, in descending order, followed by the rows without one in
\* their input order.  kind is left at its default "quicksort", which is not a
\* stable sort, so rows with equal dates may come out in any order.
SortValues(rows) ==
    LET dated   == SelectSeq(rows, LAMBDA r : ~r.cells["date"].nat)
        undated == SelectSeq(rows, LAMBDA r : r.cells["date"].nat)
        n       == Len(dated)
    IN  {[i \in 1..n |-> dated[f[i]]] \o undated : f \in
            {g \in Perms(n) : \A i \in 1..(n - 1) :
                dated[g[i]].cells["date"].value >= dated[g[i + 1]].cells["date"].value}}

\* whether `start, end = date_range` raises: a tuple that holds other than two dates
UnpackRaises(date_range) == Truthy(date_range) /\ Len(date_range.v) # 2

\* the rows filter_data keeps, before the sort: the topic filter when topics is
\* a non-empty list, then the date filter when date_range is a non-empty tuple
FilterRows(df, topics, date_range) ==
    LET byTopic == IF Truthy(topics)
                   THEN SelectSeq(df.rows, LAMBDA r : IsIn(r.cells["topic"], topics.v))
                   ELSE df.rows
    IN  IF Truthy(date_range)
        THEN LET rng == CoerceRangeLikeSeriesTz(date_range.v[1], date_range.v[2],
                                                Series(df.dtype, <<>>))
             IN  SelectSeq(byTopic, LAMBDA r : InRange(r.cells["date"], rng[1], rng[2]))
        ELSE byTopic

\* filter_data sorting the caller's frame in place (no copy, inplace=True)
filter_data_in_place(df, topics, date_range) ==
    IF UnpackRaises(date_range)
    THEN {[df |-> df, raised |-> TRUE, ret |-> NoFrame]}
    ELSE {[df |-> [df EXCEPT !.rows = inplace], raised |-> FALSE,
           ret |-> [df EXCEPT !.rows = sorted]] :
             inplace \in SortValues(df.rows),
             sorted \in SortValues(FilterRows(df, topics, date_range))}

\* filter_data(df, topics, date_range): every outcome the call can have, each
\* with the frame the caller passed as it is after the call (df: filter_data
\* works on df.copy() and on the new frames indexing and sort_values return),
\* whether the call raised, and the frame returned (ret)
filter_data(df, topics, date_range) ==
    IF UnpackRaises(date_range)
    THEN {[df |-> df, raised |-> TRUE, ret |-> NoFrame]}
    ELSE {[df |-> df, raised |-> FALSE, ret |-> [df EXCEPT !.rows = sorted]] :
             sorted \in SortValues(FilterRows(df, topics, date_range))}

\* ---------------------------------------------------- _format_when_display
\* a Python value handed to _format_when_display: a pd.Timestamp with its
\* tzinfo, pd.NaT, or something that is no timestamp
PyTimestamp(v, tz) == [type |-> "Timestamp", value |-> v, tz |-> tz]
PyNaT == [type |-> "NaTType", value |-> 0, tz |-> NoTz]
PyOther(t) == [type |-> t, value |-> 0, tz |-> NoTz]

\* row.get("date"): the cell as a Python value
CellValue(df, row) ==
    IF df.dtype = "object" THEN PyOther("str")
    ELSE IF row.cells["date"].nat THEN PyNaT
    ELSE PyTimestamp(row.cells["date"].value, df.dtype)

\* _format_when_display without tz_convert: the wall clock of the value's own zone
FormatInOwnZone(ts) ==
    IF ts.type # "Timestamp" THEN <<>>
    ELSE Strftime(ts.value + UtcOffset(ts.tz))

\* _format_when_display(ts)
FormatWhenDisplay(ts) ==
    IF ts.type # "Timestamp" THEN <<>>
    ELSE IF ts.tz # NoTz THEN Strftime(ts.value + UtcOffset("Asia/Seoul"))
    ELSE Strftime(ts.value)

\* -------------------------------------------------------------------- main
\* what st.sidebar.date_input hands back: a single date, or a tuple of dates
PickedDate(d) == [isdate |-> TRUE, d |-> d, t |-> <<>>]
PickedTuple(t) == [isdate |-> FALSE, d |-> 0, t |-> t]

\* datetime.date.today(), on the day the app is used
Today == DaysFromCivil(2024, 1, 7)

DatedValues(df) ==
    {df.rows[i].cells["date"].value : i \in {j \in 1..Len(df.rows) : ~df.rows[j].cells["date"].nat}}

Min(S) == CHOOSE x \in S : \A y \in S : x <= y
Max(S) == CHOOSE x \in S : \A y \in S : x >= y

\* min_date and max_date of main: the days of the earliest and latest date of
\* the frame, today when no row has a date
MinDate(df) == IF DatedValues(df) # {} THEN DateOf(Min(DatedValues(df))) ELSE Today
MaxDate(df) == IF DatedValues(df) # {} THEN DateOf(Max(DatedValues(df))) ELSE Today

\* the options of the topic multiselect: the distinct topics that are not missing
TopicOptions(df) == {df.rows[i].cells["topic"] : i \in 1..Len(df.rows)} \ {NA}

\* the lists a multiselect over a set of options can return
Selections(options) ==
    UNION {{q \in [1..n -> options] : \A i, j \in 1..n : q[i] = q[j] => i = j} :
              n \in 0..Cardinality(options)}

\* the values date_input can return for bounds lo..hi
DateInputValues(lo, hi) ==
    {PickedDate(d) : d \in lo..hi}
    \cup {PickedTuple(<<>>)}
    \cup {PickedTuple(<<d>>) : d \in lo..hi}
    \cup {PickedTuple(<<p[1], p[2]>>) : p \in {q \in (lo..hi) \X (lo..hi) : q[1] <= q[2]}}

\* date_range as main derives it from the value of date_input
MainDateRange(selected, min_date, max_date) ==
    IF selected.isdate THEN Some(<<selected.d, selected.d>>)
    ELSE IF Len(selected.t) > 0 THEN Some(selected.t)
    ELSE Some(<<min_date, max_date>>)

\* ----------------------------------------------------------------- sources
RawDates ==
    { RawAware(At(2024, 1, 5, 10, 0, 0), 0),           \* 2024-01-05T10:00:00Z
      RawAware(At(2024, 1, 5, 14, 59, 59), 0),         \* 2024-01-05T14:59:59Z
      RawAware(At(2024, 1, 5, 15, 0, 0), 0),           \* 2024-01-05T15:00:00Z
      RawAware(At(2024, 1, 6, 18, 0, 0), 9 * 3600),    \* 2024-01-06T18:00:00+09:00
      RawNaive(At(2024, 1, 6, 9, 0, 0)),               \* 2024-01-06 09:00
      RawGarbage }                                     \* garbage

RawTopics == {"politics", "economy", NA}

Headers ==
    { REQUIRED_COLS,
      <<" date ", "title", "body", "topic ", "summary", "newsletter">>,
      <<"title", "body", "topic">>,
      <<"date", "title">> }

\* a sheet with the given header whose rows hold the given date and topic
\* cells; read_csv labels the rows 0, 1, ...
Sheet(header, cells) ==
    DataFrame(header,
              [i \in 1..Len(cells) |->
                  [index |-> i - 1,
                   cells |-> [c \in Range(header) |->
                                 CASE Strip(c) = "date"  -> cells[i][1]
                                   [] Strip(c) = "topic" -> cells[i][2]
                                   [] OTHER              -> "t"]]],
              "object")

\* the sheets with a header, at most maxRows rows and cells drawn from dates and topics
SheetsWith(header, maxRows, dates, topics) ==
    UNION {{Sheet(header, q) : q \in [1..n -> dates \X topics]} : n \in 0..maxRows}

Fetched(frame) == [ok |-> TRUE, frame |-> frame]
FetchFails == [ok |-> FALSE, frame |-> NoFrame]

\* every outcome of the fetch: a sheet of at most MaxRows rows, or a failure
AllSources ==
    {FetchFails}
    \cup {Fetched(f) : f \in UNION {SheetsWith(h, MaxRows, RawDates, {"politics"}) : h \in Headers}}

\* the rows of the scenario: a zone-qualified, a zone-naive and an unparseable date
ScenarioSheet ==
    Sheet(REQUIRED_COLS,
          << <<RawAware(At(2024, 1, 5, 10, 0, 0), 0), "politics">>,
             <<RawNaive(At(2024, 1, 6, 9, 0, 0)), "economy">>,
             <<RawGarbage, "politics">> >>)

\* two rows that are stored with the same date, and one row without a topic
TiedSheet ==
    Sheet(<<" date ", "title", "body", "topic ">>,
          << <<RawNaive(At(2024, 1, 6, 9, 0, 0)), "economy">>,
             <<RawAware(At(2024, 1, 6, 18, 0, 0), 9 * 3600), NA>> >>)

\* the sheets the running app is served
MainSources == {FetchFails, Fetched(ScenarioSheet), Fetched(TiedSheet),
                Fetched(Sheet(REQUIRED_COLS, <<>>))}

\* the frames load_sheet returns for the sheets with all six columns
LoadedFrames ==
    {NormalizeSheet(f) : f \in SheetsWith(REQUIRED_COLS, MaxFilterRows, RawDates, RawTopics)}

TopicChoices ==
    {None, Some(<<>>), Some(<<"politics">>), Some(<<"economy">>),
     Some(<<"politics", "economy">>)}

Days == DaysFromCivil(2024, 1, 5)..DaysFromCivil(2024, 1, 6)

RangeChoices == {None} \cup {Some(<<a, b>>) : a \in Days, b \in Days}

FormatInstants ==
    {At(y, md[1], md[2], hh, mi, ss) :
        y \in {1999, 2024}, md \in {<<1, 1>>, <<2, 28>>, <<12, 31>>},
        hh \in {0, 15, 23}, mi \in {0, 59}, ss \in {0, 59}}

Zones == {NoTz, "UTC", "Asia/Seoul", "UTC-05:00", "UTC+05:30"}

FormatInputs ==
    {PyNaT, PyOther("NoneType"), PyOther("str")}
    \cup {PyTimestamp(v, tz) : v \in FormatInstants, tz \in Zones}

\* ------------------------------------------------------------------- state
VARIABLES
    source,           \* what the sheet's CSV export answers now
    lpc,              \* position of the running load_sheet call
    ldf,              \* df of the running load_sheet call
    ls,               \* s of the running load_sheet call
    nloads,           \* load_sheet calls made so far
    cache,            \* the frame load_sheet returned last (st.cache_data)
    errors,           \* messages shown with st.error
    pc,               \* position of the script run (main)
    data,             \* data of main
    selected_topics,  \* topics given to filter_data
    selected_range,   \* the value of date_input
    date_range,       \* date_range given to filter_data
    filtered,         \* the frame filter_data returned
    filtered2,        \* the frame filter_data returned for filtered
    messages,         \* st.info and st.warning messages of the run
    rendered,         \* the date captions of the rendered rows
    ts,               \* the value given to _format_when_display
    display           \* the string _format_when_display returned

loaderVars == <<source, lpc, ldf, ls, nloads, cache, errors>>
mainVars == <<pc, data, selected_topics, selected_range, date_range, filtered,
              filtered2, messages, rendered>>
formatVars == <<ts, display>>
vars == <<loaderVars, mainVars, formatVars>>

NoSeries == Series("none", <<>>)

LoaderIdle ==
    /\ lpc = "idle" /\ ldf = NoFrame /\ ls = NoSeries /\ nloads = 0
    /\ cache = NoFrame /\ errors = {}

MainIdle(at) ==
    /\ pc = at /\ data = NoFrame /\ selected_topics = None
    /\ selected_range = PickedTuple(<<>>) /\ date_range = None
    /\ filtered = NoFrame /\ filtered2 = NoFrame /\ messages = {} /\ rendered = <<>>

FormatIdle == ts = PyNaT /\ display = <<>>

\* ------------------------------------------------------------- load_sheet
\* read_csv whose failure hands back the frame loaded before
ReadCsvKeepsStale ==
    /\ lpc = "idle" /\ nloads < MaxLoads
    /\ nloads' = nloads + 1
    /\ IF source.ok
       THEN ldf' = source.frame /\ lpc' = "columns" /\ UNCHANGED errors
       ELSE /\ ldf' = (IF cache # NoFrame THEN cache ELSE EmptyFrame)
            /\ lpc' = "return" /\ errors' = errors \cup {"load_failed"}
    /\ UNCHANGED <<source, ls, cache, mainVars, formatVars>>

\* pd.read_csv: on an exception st.error reports it and the empty frame with
\* the required columns is what the call returns
ReadCsv ==
    /\ lpc = "idle" /\ nloads < MaxLoads
    /\ nloads' = nloads + 1
    /\ IF source.ok
       THEN ldf' = source.frame /\ lpc' = "columns" /\ UNCHANGED errors
       ELSE ldf' = EmptyFrame /\ lpc' = "return" /\ errors' = errors \cup {"load_failed"}
    /\ UNCHANGED <<source, ls, cache, mainVars, formatVars>>

NormalizeColumns ==
    /\ lpc = "columns"
    /\ ldf' = FillRequired(StripColumns(ldf), 1)
    /\ lpc' = "to_datetime"
    /\ UNCHANGED <<source, ls, nloads, cache, errors, mainVars, formatVars>>

ToDatetime ==
    /\ lpc = "to_datetime"
    /\ ls' = to_datetime(Column(ldf, "date"))
    /\ lpc' = "tz_convert"
    /\ UNCHANGED <<source, ldf, nloads, cache, errors, mainVars, formatVars>>

TzConvert ==
    /\ lpc = "tz_convert"
    /\ ls' = ConvertToSeoulNaive(ls)
    /\ lpc' = "assign"
    /\ UNCHANGED <<source, ldf, nloads, cache, errors, mainVars, formatVars>>

AssignDate ==
    /\ lpc = "assign"
    /\ ldf' = SetColumn(ldf, "date", ls)
    /\ lpc' = "return"
    /\ UNCHANGED <<source, ls, nloads, cache, errors, mainVars, formatVars>>

\* the return: the frame replaces the cached one
Return ==
    /\ lpc = "return"
    /\ cache' = ldf
    /\ lpc' = "idle" /\ ldf' = NoFrame /\ ls' = NoSeries
    /\ UNCHANGED <<source, nloads, errors, mainVars, formatVars>>

\* the sheet is edited, or becomes unreachable, between two loads
EditSheet ==
    /\ lpc = "idle" /\ nloads < MaxLoads
    /\ source' \in MainSources \ {source}
    /\ UNCHANGED <<lpc, ldf, ls, nloads, cache, errors, mainVars, formatVars>>

\* -------------------------------------------------------------------- main
\* data = load_sheet(), served from the cache: st.cache_data hands each caller
\* its own copy of the frame the last load returned
MainLoad ==
    /\ pc = "start" /\ cache # NoFrame
    /\ data' = cache
    /\ pc' = "loaded"
    /\ UNCHANGED <<selected_topics, selected_range, date_range, filtered, filtered2,
                   messages, rendered, loaderVars, formatVars>>

\* if data.empty: st.info(...); return
MainNoData ==
    /\ pc = "loaded" /\ IsEmpty(data)
    /\ messages' = messages \cup {"no_data"}
    /\ pc' = "stopped"
    /\ UNCHANGED <<data, selected_topics, selected_range, date_range, filtered,
                   filtered2, rendered, loaderVars, formatVars>>

\* the sidebar widgets and the date_range derived from them
MainSelect ==
    /\ pc = "loaded" /\ ~IsEmpty(data)
    /\ \E topics \in Selections(TopicOptions(data)),
          picked \in DateInputValues(MinDate(data), MaxDate(data)) :
            /\ selected_topics' = Some(topics)
            /\ selected_range' = picked
            /\ date_range' = MainDateRange(picked, MinDate(data), MaxDate(data))
    /\ pc' = "filter"
    /\ UNCHANGED <<data, filtered, filtered2, messages, rendered, loaderVars, formatVars>>

\* filtered_data = filter_data(data, selected_topics, date_range)
MainFilter ==
    /\ pc = "filter"
    /\ \E r \in filter_data(data, selected_topics, date_range) :
          /\ data' = r.df
          /\ IF r.raised
             THEN pc' = "raised" /\ UNCHANGED filtered
             ELSE pc' = "render" /\ filtered' = r.ret
    /\ UNCHANGED <<selected_topics, selected_range, date_range, filtered2, messages,
                   rendered, loaderVars, formatVars>>

\* the warning when nothing matches, else one caption per row
MainRender ==
    /\ pc = "render"
    /\ IF IsEmpty(filtered)
       THEN messages' = messages \cup {"no_match"} /\ rendered' = <<>>
       ELSE /\ rendered' = [i \in 1..Len(filtered.rows) |->
                               FormatWhenDisplay(CellValue(filtered, filtered.rows[i]))]
            /\ UNCHANGED messages
    /\ pc' = "done"
    /\ UNCHANGED <<data, selected_topics, selected_range, date_range, filtered,
                   filtered2, loaderVars, formatVars>>

\* a widget changes: the script runs again from the top
Rerun ==
    /\ pc \in {"stopped", "done", "raised"}
    /\ pc' = "start" /\ data' = NoFrame /\ selected_topics' = None
    /\ selected_range' = PickedTuple(<<>>) /\ date_range' = None
    /\ filtered' = NoFrame /\ filtered2' = NoFrame /\ messages' = {} /\ rendered' = <<>>
    /\ UNCHANGED <<loaderVars, formatVars>>

\* -------------------------------------------------- filter_data, standalone
Apply ==
    /\ pc = "apply"
    /\ \E r \in filter_data(data, selected_topics, date_range) :
          /\ data' = r.df
          /\ filtered' = r.ret
          /\ pc' = IF r.raised THEN "raised" ELSE "applied"
    /\ UNCHANGED <<selected_topics, selected_range, date_range, filtered2, messages,
                   rendered, loaderVars, formatVars>>

\* filter_data applied to its own result with the same topics and range
ApplyAgain ==
    /\ pc = "applied"
    /\ \E r \in filter_data(filtered, selected_topics, date_range) :
          /\ filtered' = r.df
          /\ filtered2' = r.ret
          /\ pc' = IF r.raised THEN "raised" ELSE "reapplied"
    /\ UNCHANGED <<data, selected_topics, selected_range, date_range, messages,
                   rendered, loaderVars, formatVars>>

\* --------------------------------------------- _format_when_display, alone
Format ==
    /\ pc = "format"
    /\ display' = FormatWhenDisplay(ts)
    /\ pc' = "formatted"
    /\ UNCHANGED <<ts, data, selected_topics, selected_range, date_range, filtered,
                   filtered2, messages, rendered, loaderVars>>

\* ---------------------------------------------------------- specifications
\* the app: loads (bounded by MaxLoads) run beside the script runs
Init ==
    /\ source \in MainSources
    /\ LoaderIdle /\ MainIdle("start") /\ FormatIdle

Next ==
    \/ ReadCsv \/ NormalizeColumns \/ ToDatetime \/ TzConvert \/ AssignDate \/ Return
    \/ EditSheet
    \/ MainLoad \/ MainNoData \/ MainSelect \/ MainFilter \/ MainRender \/ Rerun

Spec == Init /\ [][Next]_vars

\* load_sheet on every source
InitLoad ==
    /\ source \in AllSources
    /\ LoaderIdle /\ MainIdle("off") /\ FormatIdle

NextLoad ==
    ReadCsv \/ NormalizeColumns \/ ToDatetime \/ TzConvert \/ AssignDate \/ Return

SpecLoad == InitLoad /\ [][NextLoad]_vars

\* filter_data on every loaded frame, topic selection and range
InitFilter ==
    /\ source = FetchFails /\ LoaderIdle /\ FormatIdle
    /\ pc = "apply"
    /\ data \in LoadedFrames
    /\ selected_topics \in TopicChoices
    /\ date_range \in RangeChoices
    /\ selected_range = PickedTuple(<<>>)
    /\ filtered = NoFrame /\ filtered2 = NoFrame /\ messages = {} /\ rendered = <<>>

NextFilter == Apply \/ ApplyAgain

SpecFilter == InitFilter /\ [][NextFilter]_vars

\* _format_when_display on every input
InitFormat ==
    /\ source = FetchFails /\ LoaderIdle /\ MainIdle("format")
    /\ ts \in FormatInputs /\ display = <<>>

NextFormat == Format

SpecFormat == InitFormat /\ [][NextFormat]_vars

\* ------------------------------------------------------------------ claims
SeoulOffset == 9 * 3600

\* the raw date cell of row i of the fetched sheet (empty when the sheet has
\* no date column)
SourceRaw(i) ==
    LET cells == source.frame.rows[i].cells
    IN  IF \E c \in DOMAIN cells : Strip(c) = "date"
        THEN cells[CHOOSE c \in DOMAIN cells : Strip(c) = "date"]
        ELSE RawNA

Loaded == source.ok /\ cache # NoFrame

StoredDate(i) == cache.rows[i].cells["date"]

\* C1: every raw timestamp that parses and carries no zone is stored with the
\* wall clock it was written with, no offset applied.
C1_NaiveStoredAsIs ==
    Loaded =>
        \A i \in 1..Len(cache.rows) :
            SourceRaw(i).kind = "naive" => StoredDate(i) = Timestamp(SourceRaw(i).wall)

\* C2: after load, every date is NaT exactly when the raw value did not parse,
\* the date column carries no zone, and every zone-qualified raw value is
\* stored as its Asia/Seoul wall clock.
C2_Normalized ==
    Loaded =>
        /\ Len(cache.rows) = Len(source.frame.rows)
        /\ cache.dtype = NoTz
        /\ \A i \in 1..Len(cache.rows) :
              /\ StoredDate(i).nat <=> ~Parses(SourceRaw(i))
              /\ SourceRaw(i).kind = "aware" =>
                    StoredDate(i) = Timestamp(SourceRaw(i).wall - SourceRaw(i).off + SeoulOffset)

\* a sheet mixing 2024-01-05T10:00:00Z, a zone-naive value and garbage is
\* loaded, and the first is stored as 2024-01-05 19:00
C2_Witness ==
    /\ Loaded /\ Len(cache.rows) = 3
    /\ SourceRaw(1) = RawAware(At(2024, 1, 5, 10, 0, 0), 0)
    /\ StoredDate(1) = Timestamp(At(2024, 1, 5, 19, 0, 0))
    /\ SourceRaw(2).kind = "naive" /\ ~StoredDate(2).nat
    /\ SourceRaw(3).kind = "garbage" /\ StoredDate(3).nat

Applied == pc \in {"applied", "reapplied"}

\* the topic test and the date test as the claim states them
PassesTopic(r) ==
    \/ ~selected_topics.some
    \/ selected_topics.v = <<>>
    \/ r.cells["topic"] # NA /\ \E k \in 1..Len(selected_topics.v) :
                                   selected_topics.v[k] = r.cells["topic"]

PassesDate(r) ==
    \/ ~date_range.some
    \/ /\ ~r.cells["date"].nat
       /\ r.cells["date"].value >= date_range.v[1] * 86400
       /\ r.cells["date"].value <= date_range.v[2] * 86400 + 23 * 3600 + 59 * 60 + 59

Labels(df) == {df.rows[i].index : i \in 1..Len(df.rows)}

\* C3: filter_data returns exactly the rows that pass the topic test and the
\* date test, each once and unaltered.
C3_ExactlyMatching ==
    Applied =>
        /\ Labels(filtered) =
              {data.rows[i].index : i \in {j \in 1..Len(data.rows) :
                  PassesTopic(data.rows[j]) /\ PassesDate(data.rows[j])}}
        /\ Cardinality(Labels(filtered)) = Len(filtered.rows)
        /\ Range(filtered.rows) \subseteq Range(data.rows)
        /\ filtered.columns = data.columns

\* a range is given; a dated row inside it is returned and an undated row
\* that passes the topic test is left out
C3_Witness ==
    /\ pc = "applied" /\ date_range.some /\ Truthy(selected_topics)
    /\ Len(filtered.rows) = 1
    /\ \E i \in 1..Len(data.rows) :
          data.rows[i].cells["date"].nat /\ PassesTopic(data.rows[i])

\* C4: in a result, adjacent dated rows are in descending order and every
\* undated row comes after every dated row.
C4_SortedDescNaLast ==
    Applied =>
        /\ \A i \in 1..(Len(filtered.rows) - 1) :
              (~filtered.rows[i].cells["date"].nat /\ ~filtered.rows[i + 1].cells["date"].nat)
                 => filtered.rows[i].cells["date"].value >= filtered.rows[i + 1].cells["date"].value
        /\ \A i, j \in 1..Len(filtered.rows) :
              (filtered.rows[i].cells["date"].nat /\ ~filtered.rows[j].cells["date"].nat) => j < i

\* the input holds an undated row before a dated one, and the result holds
\* them the other way round
C4_Witness ==
    /\ pc = "applied" /\ Len(data.rows) = 2 /\ Len(filtered.rows) = 2
    /\ data.rows[1].cells["date"].nat /\ ~data.rows[2].cells["date"].nat
    /\ filtered.rows[1] = data.rows[2] /\ filtered.rows[2] = data.rows[1]

\* the position of the row labelled l in a frame
PositionIn(df, l) == CHOOSE i \in 1..Len(df.rows) : df.rows[i].index = l

\* C5: the sort is stable: rows of the result with equal dates, and rows that
\* both lack a date, are in the order they had in the input.
C5_Stable ==
    Applied =>
        \A i, j \in 1..Len(filtered.rows) :
            (i < j /\ filtered.rows[i].cells["date"] = filtered.rows[j].cells["date"])
               => PositionIn(data, filtered.rows[i].index)
                     < PositionIn(data, filtered.rows[j].index)

\* C6: filter_data applied to its own result, with the same topics and range,
\* returns the same rows in the same order.
C6_Idempotent == pc = "reapplied" => filtered2 = filtered

\* C7: a load whose fetch failed reports it and returns the empty frame with
\* the six required columns, whatever was loaded before; main then shows
\* "no data" and stops without filtering.
C7_FetchFailure ==
    [][ /\ (lpc = "idle" /\ lpc' # "idle" /\ ~source.ok) =>
              (lpc' = "return" /\ "load_failed" \in errors')
        /\ (lpc = "return" /\ lpc' = "idle" /\ ~source.ok) =>
              /\ cache' = DataFrame(REQUIRED_COLS, <<>>, "object")
              /\ "load_failed" \in errors'
        /\ (pc = "start" /\ pc' = "loaded") => data' = cache
        /\ (pc = "loaded" /\ IsEmpty(data) /\ pc' # pc) =>
              (pc' = "stopped" /\ "no_data" \in messages' /\ filtered' = NoFrame)
      ]_vars

\* the fetch failed after an earlier load had succeeded, and the run stopped
\* on "no data"
C7_Witness ==
    /\ ~source.ok /\ nloads = 2 /\ lpc = "idle"
    /\ cache = EmptyFrame /\ errors = {"load_failed"}
    /\ pc = "stopped" /\ data = EmptyFrame /\ messages = {"no_data"}

IsDigit(ch) == \E d \in 1..10 : DigitChar[d] = ch

DigitValue(ch) == (CHOOSE d \in 1..10 : DigitChar[d] = ch) - 1

Number(str, from, to) ==
    LET RECURSIVE Acc(_)
        Acc(k) == IF k < from THEN 0 ELSE Acc(k - 1) * 10 + DigitValue(str[k])
    IN  Acc(to)

\* YYYY-MM-DD HH:MM
MatchesPattern(str) ==
    /\ Len(str) = 16
    /\ \A k \in {1, 2, 3, 4, 6, 7, 9, 10, 12, 13, 15, 16} : IsDigit(str[k])
    /\ str[5] = "-" /\ str[8] = "-" /\ str[11] = " " /\ str[14] = ":"

\* the wall clock a YYYY-MM-DD HH:MM string names
WallClockOf(str) ==
    At(Number(str, 1, 4), Number(str, 6, 7), Number(str, 9, 10),
       Number(str, 12, 13), Number(str, 15, 16), 0)

\* the Asia/Seoul wall clock of a timestamp; a zone-free one is in Seoul time
SeoulWallClock(t) == IF t.tz = NoTz THEN t.value ELSE t.value + SeoulOffset

\* C8: _format_when_display returns "" for NaT and for anything that is no
\* timestamp, and for a timestamp the YYYY-MM-DD HH:MM of its Asia/Seoul wall
\* clock, without a zone suffix.
C8_Format ==
    pc = "formatted" =>
        IF ts.type = "Timestamp"
        THEN /\ MatchesPattern(display)
             /\ WallClockOf(display) = SeoulWallClock(ts) - (SeoulWallClock(ts) % 60)
        ELSE display = <<>>

\* 2024-12-31 15:00:59 UTC is shown as 2025-01-01 00:00
C8_Witness ==
    /\ pc = "formatted"
    /\ ts = PyTimestamp(At(2024, 12, 31, 15, 0, 59), "UTC")
    /\ display = <<"2", "0", "2", "5", "-", "0", "1", "-", "0", "1", " ",
                   "0", "0", ":", "0", "0">>

\* a frame load_sheet has finished: the six columns, and dates without a zone
Complete(df) ==
    /\ Range(REQUIRED_COLS) \subseteq Range(df.columns)
    /\ df.rows = <<>> \/ df.dtype = NoTz
    /\ \A i \in 1..Len(df.rows) : DOMAIN df.rows[i].cells = Range(df.columns)

\* C9: the frame main holds is the complete frame that was cached when it was
\* loaded and no step changes it, filter_data included, whose result is a
\* part of it; the cache changes only by being replaced with a complete frame.
C9_NeverMutated ==
    [][ /\ (pc = "start" /\ pc' = "loaded") => (data' = cache /\ Complete(cache))
        /\ pc \in {"loaded", "filter", "render"} => data' = data
        /\ (pc = "filter" /\ pc' = "render") =>
              /\ Len(filtered'.rows) <= Len(data.rows)
              /\ Range(filtered'.rows) \subseteq Range(data.rows)
        /\ cache' # cache => (lpc = "return" /\ cache' = ldf /\ Complete(cache'))
      ]_vars

\* a load replaced the cache while main was filtering the frame loaded before
C9_Witness ==
    /\ pc = "render" /\ cache # NoFrame /\ cache # data
    /\ Len(data.rows) = 3 /\ Len(filtered.rows) = 2
    /\ filtered.rows # SubSeq(data.rows, 1, 2)

\* C10: whatever date_input returns, main gives filter_data a range of two
\* dates and filter_data does not raise.
C10_RangeOfTwoDates ==
    /\ pc = "filter" => Len(date_range.v) = 2
    /\ pc # "raised"

====
